---- MODULE Spec2Model ----
(***************************************************************************)
(* Model of the audit input pipeline (pre_audit.sh: scope filter and diff  *)
(* scoper) and of the dispatch/aggregation engine (callOpenAIAudit and     *)
(* performAudit in audit-mcp-server.ts).                                   *)
(*                                                                         *)
(* Strings that the code inspects character by character (paths, regular   *)
(* expressions) are sequences of one-character strings.  A diff text is    *)
(* the sequence of its lines (the text split at "\n"); the empty text is   *)
(* the one-element sequence holding the empty line.                        *)
(***************************************************************************)
EXTENDS Integers, Sequences, FiniteSets, TLC

-----------------------------------------------------------------------------
(* Bounds of the model *)

\* longest .auditignore pattern list
MaxPatterns == 2
\* longest diff text, in lines, handed to the diff scoper
MaxScoperLines == 3
\* longest diff text, in lines, handed to the dispatcher
MaxLines == 4

-----------------------------------------------------------------------------
(* Characters, paths, sequences *)

\* byte order of the characters used, as sort(1) compares them
Ord(c) ==
  CASE c = " " -> 32
    [] c = "-" -> 45
    [] c = "." -> 46
    [] c = "/" -> 47
    [] c = "a" -> 97
    [] c = "b" -> 98
    [] c = "c" -> 99
    [] c = "d" -> 100
    [] c = "f" -> 102
    [] c = "g" -> 103
    [] c = "i" -> 105
    [] c = "s" -> 115
    [] c = "t" -> 116
    [] OTHER -> 0

\* repository-relative paths git can report: "a.", "ab", "s/a", "s/b"
PathUniverse ==
  { <<"a", ".">>, <<"a", "b">>, <<"s", "/", "a">>, <<"s", "/", "b">> }

\* the invocation directory relative to the repository top level: "" or "s"
CwdUniverse == { <<>>, <<"s">> }

\* .auditignore lines: "a", "b", "^a.$", "s/.*"
PatternUniverse ==
  { <<"a">>, <<"b">>, <<"^", "a", ".", "$">>, <<"s", "/", ".", "*">> }

Range(f) == { f[i] : i \in DOMAIN f }

SeqsUpTo(S, n) == UNION { [1..k -> S] : k \in 0..n }

Drop(s, k) == SubSeq(s, k + 1, Len(s))

RECURSIVE LexLess(_, _)
LexLess(p, q) ==
  IF q = <<>> THEN FALSE
  ELSE IF p = <<>> THEN TRUE
  ELSE IF Ord(Head(p)) # Ord(Head(q)) THEN Ord(Head(p)) < Ord(Head(q))
  ELSE LexLess(Tail(p), Tail(q))

\* the elements of a set of strings as the sorted list sort -u prints
RECURSIVE SortedSeq(_)
SortedSeq(S) ==
  IF S = {} THEN <<>>
  ELSE LET m == CHOOSE x \in S : \A y \in S \ {x} : LexLess(x, y)
       IN <<m>> \o SortedSeq(S \ {m})

\* the lines git prints for a set of names
NameLists == { SortedSeq(S) : S \in SUBSET PathUniverse }

-----------------------------------------------------------------------------
(* grep: regular expressions over the characters above.  "." matches any   *)
(* character, "x*" any run of x, "^" and "$" anchor at the ends.            *)

RECURSIVE MatchHere(_, _, _)
MatchHere(re, text, whole) ==
  IF re = <<>> THEN (~whole \/ text = <<>>)
  ELSE IF Len(re) >= 2 /\ re[2] = "*"
    THEN \E k \in 0..Len(text) :
           /\ \A i \in 1..k : re[1] = "." \/ re[1] = text[i]
           /\ MatchHere(Drop(re, 2), Drop(text, k), whole)
  ELSE IF re = <<"$">> THEN text = <<>>
  ELSE /\ text # <<>>
       /\ re[1] = "." \/ re[1] = text[1]
       /\ MatchHere(Tail(re), Tail(text), whole)

\* grep [-E] re: the line contains a match of re
GrepSearch(re, line) ==
  IF re # <<>> /\ Head(re) = "^"
    THEN MatchHere(Tail(re), line, FALSE)
    ELSE \E k \in 0..Len(line) : MatchHere(re, Drop(line, k), FALSE)

\* grep -x re: re matches the entire line
GrepLine(re, line) ==
  MatchHere(IF re # <<>> /\ Head(re) = "^" THEN Tail(re) ELSE re, line, TRUE)

-----------------------------------------------------------------------------
(* Diff texts *)

\* "diff --git a/<p> b/<p>": a file header line, 16 characters around the
\* two copies of the path
Hdr(p) == [kind |-> "hdr", path |-> p, len |-> 16 + 2 * Len(p)]

\* any other line, of n characters
Body(n) == [kind |-> "body", path |-> <<>>, len |-> n]

EmptyLine == Body(0)

\* the empty string, as a list of lines
EmptyText == <<EmptyLine>>

\* $(...) removes the newlines that end the output of a command
RECURSIVE StripTrailingNewlines(_)
StripTrailingNewlines(t) ==
  IF Len(t) > 1 /\ t[Len(t)] = EmptyLine
    THEN StripTrailingNewlines(SubSeq(t, 1, Len(t) - 1))
    ELSE t

\* "${x}${y}": the last line of x and the first line of y become one line,
\* which begins as the first line of y only if the last line of x is empty
ConcatText(x, y) ==
  IF x = EmptyText THEN y
  ELSE IF y = EmptyText THEN x
  ELSE SubSeq(x, 1, Len(x) - 1)
       \o << [kind |-> IF x[Len(x)] = EmptyLine THEN y[1].kind ELSE "body",
              path |-> IF x[Len(x)] = EmptyLine THEN y[1].path ELSE <<>>,
              len |-> x[Len(x)].len + y[1].len] >>
       \o Tail(y)

\* the lines a list of names is printed as by echo: the empty list prints
\* as one empty line
EchoLines(files) == IF files = <<>> THEN << <<>> >> ELSE files

\* wc -l of the echo of a list of names
WcL(files) == Len(EchoLines(files))

\* "a b": a path with a space in it, which git prints as it is
SpacedPath == <<"a", " ", "b">>

\* the paths of the diffs and of the lists the scoper is run on
ScoperPaths == PathUniverse \cup {SpacedPath}

ScoperNameLists == { SortedSeq(S) : S \in SUBSET ScoperPaths }

\* the diff texts the scoper is run on: command substitution has removed
\* the newlines at the end
ScoperLines == { Hdr(p) : p \in ScoperPaths } \cup { Body(0), Body(1) }

ScoperTexts ==
  { t \in UNION { [1..k -> ScoperLines] : k \in 1..MaxScoperLines } :
      StripTrailingNewlines(t) = t }

\* the paths of the file header lines of a text, in order
RECURSIVE HeaderPaths(_)
HeaderPaths(t) ==
  IF t = <<>> THEN <<>>
  ELSE (IF Head(t).kind = "hdr" THEN <<Head(t).path>> ELSE <<>>)
       \o HeaderPaths(Tail(t))

-----------------------------------------------------------------------------
(* realpath --relative-to *)

\* the components of a path, split at "/"
RECURSIVE SplitPath(_)
SplitPath(p) ==
  IF p = <<>> THEN <<>>
  ELSE IF \E i \in 1..Len(p) : p[i] = "/"
    THEN LET i == CHOOSE j \in 1..Len(p) :
                    p[j] = "/" /\ \A k \in 1..(j - 1) : p[k] # "/"
         IN <<SubSeq(p, 1, i - 1)>> \o SplitPath(Drop(p, i))
  ELSE <<p>>

RECURSIVE JoinPath(_)
JoinPath(comps) ==
  IF comps = <<>> THEN <<>>
  ELSE IF Len(comps) = 1 THEN comps[1]
  ELSE comps[1] \o <<"/">> \o JoinPath(Tail(comps))

\* realpath --relative-to=<top>/<cwd> <top>/<file>
RECURSIVE RelativeTo(_, _)
RelativeTo(cwd, file) ==
  IF cwd # <<>> /\ file # <<>> /\ Head(cwd) = Head(file)
    THEN RelativeTo(Tail(cwd), Tail(file))
  ELSE IF cwd = <<>> /\ file = <<>> THEN << <<".">> >>
  ELSE [i \in 1..Len(cwd) |-> <<".", ".">>] \o file

-----------------------------------------------------------------------------
(* State *)

VARIABLES
  \* pre_audit.sh
  step,                 \* the section of the script about to run
  stagedFiles,          \* git diff --cached --name-only
  unstagedFiles,        \* git diff --name-only
  currentAbsPath,       \* the invocation directory, below the top level
  unresolvable,         \* names whose directory no longer exists
  ignore_patterns,      \* the patterns read from .auditignore
  combinedFiles,        \* the list of names under audit
  currentDirFilesOnly,  \* the names the boundary filter kept
  totalFileCount,
  currentDirFileCount,
  excludedCount,
  codeChanges,          \* the diff text of the request
  original_diff,        \* the diff text on entry to step 7
  unexpected_files,     \* header paths step 8 found outside the list
  diff_file_count,
  scoped,               \* codeChanges on exit from step 8, pass by pass
  \* audit-mcp-server.ts
  pc,                   \* where performAudit / callOpenAIAudit stands
  env,                  \* process.env
  inputData,            \* the AuditRequest handed to performAudit
  fileDiffs,            \* the Map of splitDiffByFiles, in insertion order
  nextFile,             \* index of the next entry of fileDiffs to dispatch
  sent,                 \* the calls of callCompletion made so far, in order
  inflight,             \* calls of callCompletion that have not settled
  returns,              \* what each settled call returned or threw
  responses,            \* what the provider answered to the calls it got
  fileResults,
  combinedResults,
  aiReport,
  reportFiles,          \* the files written under audits/reports
  outcome,              \* what performAudit returned or threw
  \* the request builders: pre_audit.sh, audit-shortcut.js, auto-audit.js
  builder,              \* the builder that runs
  git,                  \* what git answers: the staged and unstaged changes
  task_list,            \* task_list.txt
  args,                 \* the words given to the shortcut or to auto-audit
  modificationDescription,
  changedFiles,         \* the list getChangedFiles returned
  requestJson,          \* the requests the builder has produced
  \* audit-http-server.ts and the process that runs performAudit
  clock,                \* Date.now(), in milliseconds
  httpBody,             \* req.body of the POST being handled
  httpResponse,         \* what the handler has sent back
  otherSuccesses        \* other runs of the process that returned success

shVars ==
  << step, stagedFiles, unstagedFiles, currentAbsPath, unresolvable,
     ignore_patterns, combinedFiles, currentDirFilesOnly, totalFileCount,
     currentDirFileCount, excludedCount, codeChanges, original_diff,
     unexpected_files, diff_file_count, scoped >>

tsVars ==
  << pc, env, inputData, fileDiffs, nextFile, sent, inflight, returns,
     responses, fileResults, combinedResults, aiReport, reportFiles,
     outcome >>

rbVars ==
  << builder, git, task_list, args, modificationDescription, changedFiles,
     requestJson >>

httpVars == << clock, httpBody, httpResponse, otherSuccesses >>

vars == << shVars, tsVars, rbVars, httpVars >>

\* the server is not part of a run of the script
ServerIdle ==
  /\ pc = "idle"
  /\ env = [AI_PROVIDER |-> "", DEFAULT_AI_PROVIDER |-> "",
            OPENAI_API_KEY |-> "", DEEPSEEK_API_KEY |-> ""]
  /\ inputData = [code_changes |-> EmptyText, changed_files |-> <<>>]
  /\ fileDiffs = <<>>
  /\ nextFile = 1
  /\ sent = <<>>
  /\ inflight = {}
  /\ returns = <<>>
  /\ responses = <<>>
  /\ fileResults = <<>>
  /\ combinedResults = <<>>
  /\ aiReport = <<>>
  /\ reportFiles = <<>>
  /\ outcome = "none"

\* no request builder is part of the run
BuilderIdle ==
  /\ builder = "none"
  /\ git = [works |-> FALSE, external |-> FALSE, staged |-> {},
            unstaged |-> {}]
  /\ task_list = [exists |-> FALSE, content |-> EmptyText]
  /\ args = <<>>
  /\ modificationDescription = EmptyText
  /\ changedFiles = <<>>
  /\ requestJson = <<>>

\* no POST is being handled and no other run goes on; the clock stands
HttpIdle ==
  /\ clock = 0
  /\ httpBody = [method |-> "", params |-> [present |-> FALSE]]
  /\ httpResponse = "none"
  /\ otherSuccesses = 0

\* the script is not part of a run of the server
ScriptIdle ==
  /\ step = "idle"
  /\ stagedFiles = <<>>
  /\ unstagedFiles = <<>>
  /\ currentAbsPath = <<>>
  /\ unresolvable = {}
  /\ ignore_patterns = <<>>
  /\ combinedFiles = <<>>
  /\ currentDirFilesOnly = <<>>
  /\ totalFileCount = 0
  /\ currentDirFileCount = 0
  /\ excludedCount = 0
  /\ codeChanges = EmptyText
  /\ original_diff = EmptyText
  /\ scoped = <<>>
  /\ unexpected_files = <<>>
  /\ diff_file_count = 0

-----------------------------------------------------------------------------
(* pre_audit.sh, step 6: the changed names and the scope filter *)

\* sort -u of the two name lists; the loops that follow skip empty lines
SortUnique(staged, unstaged) == SortedSeq(Range(staged) \cup Range(unstaged))

\* fileAbsPath: the name relative to the invocation directory, empty when
\* realpath fails
FileAbsPath(cwd, file, unres) ==
  IF file \in unres THEN <<>>
  ELSE JoinPath(RelativeTo(SplitPath(cwd), SplitPath(file)))

\* [[ "$fileAbsPath" == \.\.$* ]]: the positional parameters were all
\* shifted away by the argument loop, so the pattern is the two dots alone
PositionalParameters == <<>>

MatchesDotDot(s) == s = <<".", ".">> \o PositionalParameters

\* the test of line 168
InCurrentDir(fileAbsPath) ==
  /\ fileAbsPath # <<>>
  /\ ~MatchesDotDot(fileAbsPath)
  /\ Head(fileAbsPath) # "/"

RECURSIVE BoundaryFilter(_, _, _)
BoundaryFilter(files, cwd, unres) ==
  IF files = <<>> THEN <<>>
  ELSE (IF InCurrentDir(FileAbsPath(cwd, Head(files), unres))
          THEN <<Head(files)>> ELSE <<>>)
       \o BoundaryFilter(Tail(files), cwd, unres)

\* grep -E without -v: the names that match are the ones kept
GrepVKeepsMatches(files, pattern) ==
  SelectSeq(files, LAMBDA f : GrepSearch(pattern, f))

\* grep -v -E "$pattern" over the echoed list; || echo "" and the command
\* substitution leave the names that remain
GrepV(files, pattern) ==
  SelectSeq(files, LAMBDA f : ~GrepSearch(pattern, f))

\* the loop over ignore_patterns: the list and the count after the patterns
RECURSIVE IgnoreLoop(_, _, _)
IgnoreLoop(filteredFiles, count, patterns) ==
  IF patterns = <<>> THEN [files |-> filteredFiles, excluded |-> count]
  ELSE LET after == GrepV(filteredFiles, Head(patterns))
       IN IgnoreLoop(after,
                     count + (WcL(filteredFiles) - WcL(after)),
                     Tail(patterns))

InitFilter ==
  /\ step = "names"
  /\ stagedFiles \in NameLists
  /\ unstagedFiles \in NameLists
  /\ currentAbsPath \in CwdUniverse
  /\ unresolvable \in { {}, { <<"s", "/", "b">> } }
  /\ ignore_patterns \in SeqsUpTo(PatternUniverse, MaxPatterns)
  /\ combinedFiles = <<>>
  /\ currentDirFilesOnly = <<>>
  /\ totalFileCount = 0
  /\ currentDirFileCount = 0
  /\ excludedCount = 0
  /\ codeChanges = EmptyText
  /\ original_diff = EmptyText
  /\ scoped = <<>>
  /\ unexpected_files = <<>>
  /\ diff_file_count = 0
  /\ ServerIdle
  /\ BuilderIdle
  /\ HttpIdle

\* lines 142-148
CombineNames ==
  /\ UNCHANGED << tsVars, rbVars, httpVars >>
  /\ step = "names"
  /\ combinedFiles' = SortUnique(stagedFiles, unstagedFiles)
  /\ step' = "boundary"
  /\ UNCHANGED << stagedFiles, unstagedFiles, currentAbsPath, unresolvable,
                  ignore_patterns, currentDirFilesOnly, totalFileCount,
                  currentDirFileCount, excludedCount, codeChanges,
                  original_diff, scoped, unexpected_files, diff_file_count >>

\* lines 150-183
BoundaryStep ==
  /\ UNCHANGED << tsVars, rbVars, httpVars >>
  /\ step = "boundary"
  /\ LET kept == BoundaryFilter(combinedFiles, currentAbsPath, unresolvable)
     IN /\ currentDirFilesOnly' = kept
        /\ combinedFiles' = kept
        /\ totalFileCount' = Len(combinedFiles)
        /\ currentDirFileCount' = Len(kept)
  /\ step' = "ignore"
  /\ UNCHANGED << stagedFiles, unstagedFiles, currentAbsPath, unresolvable,
                  ignore_patterns, excludedCount, codeChanges, original_diff,
                  scoped,
                  unexpected_files, diff_file_count >>

\* lines 185-209
IgnoreStep ==
  /\ UNCHANGED << tsVars, rbVars, httpVars >>
  /\ step = "ignore"
  /\ IF Len(ignore_patterns) > 0
       THEN LET r == IgnoreLoop(combinedFiles, 0, ignore_patterns)
            IN /\ combinedFiles' = r.files
               /\ excludedCount' = r.excluded
       ELSE UNCHANGED << combinedFiles, excludedCount >>
  /\ step' = "filtered"
  /\ UNCHANGED << stagedFiles, unstagedFiles, currentAbsPath, unresolvable,
                  ignore_patterns, currentDirFilesOnly, totalFileCount,
                  currentDirFileCount, codeChanges, original_diff, scoped,
                  unexpected_files, diff_file_count >>

NextFilter == CombineNames \/ BoundaryStep \/ IgnoreStep

SpecFilter == InitFilter /\ [][NextFilter]_vars

-----------------------------------------------------------------------------
(* pre_audit.sh, steps 7 and 8: the diff scoper *)

\* the fields awk splits a header line into: $2 is "--git", $3 is "a/<p>"
AwkField2(line) == <<"-", "-", "g", "i", "t">>

\* the characters of a string before its first space
FirstWord(p) ==
  IF \E i \in 1..Len(p) : p[i] = " "
    THEN SubSeq(p, 1, (CHOOSE i \in 1..Len(p) :
                         p[i] = " " /\ \A k \in 1..(i - 1) : p[k] # " ") - 1)
    ELSE p

AwkField3(line) == <<"a", "/">> \o FirstWord(line.path)

\* an awk test that takes the path of the header for the a/ side
AwkSelectsByPath(line, file) ==
  AwkField3(line) = <<"a", "/">> \o file

\* line 243: $3 == "b/"file || $2 == "a/"file
AwkSelects(line, file) ==
  \/ AwkField3(line) = <<"b", "/">> \o file
  \/ AwkField2(line) = <<"a", "/">> \o file

\* the awk program of lines 238-250: the lines of the segments it selects,
\* each followed by a newline
RECURSIVE AwkLines(_, _, _)
AwkLines(t, file, in_file) ==
  IF t = <<>> THEN <<>>
  ELSE IF Head(t).kind = "hdr"
    THEN (IF AwkSelects(Head(t), file) THEN <<Head(t)>> ELSE <<>>)
         \o AwkLines(Tail(t), file, AwkSelects(Head(t), file))
  ELSE (IF in_file THEN <<Head(t)>> ELSE <<>>)
       \o AwkLines(Tail(t), file, in_file)

\* file_diff: what the command substitution keeps of the awk output
FileDiff(t, file) ==
  StripTrailingNewlines(AwkLines(t, file, FALSE) \o EmptyText)

\* the loop of lines 235-257: filtered_diff
RECURSIVE RestrictLoop(_, _, _)
RestrictLoop(t, files, filtered_diff) ==
  IF files = <<>> THEN filtered_diff
  ELSE RestrictLoop(t, Tail(files),
                    ConcatText(filtered_diff, FileDiff(t, Head(files))))

\* line 274: the path sed takes from each "diff --git" line
\* the characters of a header line
HeaderText(p) ==
  <<"d", "i", "f", "f", " ", "-", "-", "g", "i", "t", " ", "a", "/">>
    \o p \o <<" ", "b", "/">> \o p

\* sed -E 's/^diff --git a\/([^ ]+) b\/([^ ]+)$/\1/': the path, or the
\* whole line when the path has a space in it and the pattern fails
SedPath(line) ==
  IF \E i \in 1..Len(line.path) : line.path[i] = " "
    THEN HeaderText(line.path)
    ELSE line.path

DiffFiles(t) ==
  LET headers == SelectSeq(t, LAMBDA line : line.kind = "hdr")
  IN [i \in 1..Len(headers) |-> SedPath(headers[i])]

\* grep -q "^$path$" over the echoed list of names
InCombinedFiles(path, files) ==
  \E i \in 1..Len(EchoLines(files)) :
    GrepSearch(<<"^">> \o path \o <<"$">>, EchoLines(files)[i])

\* the loop of lines 278-290
UnexpectedFiles(t, files) ==
  SelectSeq(DiffFiles(t), LAMBDA f : ~InCombinedFiles(f, files))

\* the loop of lines 308-326: the lines kept.  BASH_REMATCH[1] of
\* ^diff --git a/(.+) b/(.+)$ is the path, with or without spaces
RECURSIVE StripLoop(_, _, _)
StripLoop(t, files, include_lines) ==
  IF t = <<>> THEN <<>>
  ELSE IF Head(t).kind = "hdr"
    THEN (IF InCombinedFiles(Head(t).path, files) THEN <<Head(t)>> ELSE <<>>)
         \o StripLoop(Tail(t), files, InCombinedFiles(Head(t).path, files))
  ELSE (IF include_lines THEN <<Head(t)>> ELSE <<>>)
       \o StripLoop(Tail(t), files, include_lines)

InitScoper ==
  /\ step = "restrict"
  /\ combinedFiles \in ScoperNameLists
  /\ codeChanges \in ScoperTexts
  /\ stagedFiles = <<>>
  /\ unstagedFiles = <<>>
  /\ currentAbsPath = <<>>
  /\ unresolvable = {}
  /\ ignore_patterns = <<>>
  /\ currentDirFilesOnly = <<>>
  /\ totalFileCount = 0
  /\ currentDirFileCount = 0
  /\ excludedCount = 0
  /\ original_diff = EmptyText
  /\ scoped = <<>>
  /\ unexpected_files = <<>>
  /\ diff_file_count = 0
  /\ ServerIdle
  /\ BuilderIdle
  /\ HttpIdle

\* lines 227-266
RestrictStep ==
  /\ UNCHANGED << tsVars, rbVars, httpVars >>
  /\ step = "restrict"
  /\ IF combinedFiles # <<>>
       THEN LET filtered_diff ==
                  RestrictLoop(codeChanges, combinedFiles, EmptyText)
            IN /\ original_diff' = codeChanges
               /\ codeChanges' = IF filtered_diff # EmptyText
                                   THEN filtered_diff ELSE codeChanges
       ELSE UNCHANGED << original_diff, codeChanges >>
  /\ step' = "verify"
  /\ UNCHANGED << stagedFiles, unstagedFiles, currentAbsPath, unresolvable,
                  ignore_patterns, combinedFiles, currentDirFilesOnly,
                  totalFileCount, currentDirFileCount, excludedCount,
                  unexpected_files, diff_file_count, scoped >>

\* lines 273-331
VerifyStep ==
  /\ UNCHANGED << tsVars, rbVars, httpVars >>
  /\ step = "verify"
  /\ diff_file_count' = Len(DiffFiles(codeChanges))
  /\ unexpected_files' = UnexpectedFiles(codeChanges, combinedFiles)
  /\ codeChanges' =
       IF UnexpectedFiles(codeChanges, combinedFiles) # <<>>
         THEN StripLoop(codeChanges, combinedFiles, TRUE) \o EmptyText
         ELSE codeChanges
  /\ scoped' = Append(scoped, codeChanges')
  /\ step' = "request"
  /\ UNCHANGED << stagedFiles, unstagedFiles, currentAbsPath, unresolvable,
                  ignore_patterns, combinedFiles, currentDirFilesOnly,
                  totalFileCount, currentDirFileCount, excludedCount,
                  original_diff >>

\* how many times the scoper is run on a text
MaxPasses == 2

\* lines 227-331 are entered again with the text and the list they left
ScopeAgain ==
  /\ UNCHANGED << tsVars, rbVars, httpVars >>
  /\ step = "request"
  /\ Len(scoped) < MaxPasses
  /\ step' = "restrict"
  /\ UNCHANGED << stagedFiles, unstagedFiles, currentAbsPath, unresolvable,
                  ignore_patterns, combinedFiles, currentDirFilesOnly,
                  totalFileCount, currentDirFileCount, excludedCount,
                  codeChanges, original_diff, unexpected_files,
                  diff_file_count, scoped >>

NextScoper == RestrictStep \/ VerifyStep \/ ScopeAgain

SpecScoper == InitScoper /\ [][NextScoper]_vars

-----------------------------------------------------------------------------
(* Properties of the scope filter and the diff scoper *)

\* the ChangeSet: the names of the staged and the unstaged list
ChangeSet == Range(stagedFiles) \cup Range(unstagedFiles)

\* the string begins with ".."
BeginsWithDotDot(s) == Len(s) >= 2 /\ s[1] = "." /\ s[2] = "."

\* the name lies outside the invocation directory, or cannot be resolved
EscapesBoundary(file) ==
  LET rel == FileAbsPath(currentAbsPath, file, unresolvable)
  IN rel = <<>> \/ BeginsWithDotDot(rel)

\* C1: on exit from the diff scoper every file header line left in
\* code_changes names a path that is an element of the list of names under
\* audit, by string equality.
C1_ScopedHeadersInScope ==
  step = "request" =>
    \A p \in Range(HeaderPaths(codeChanges)) : p \in Range(combinedFiles)

\* C2: the boundary filter drops every name of the ChangeSet whose location
\* relative to the invocation directory begins with ".." or is empty.
C2_EscapingPathsExcluded ==
  step \in {"ignore", "filtered"} =>
    \A p \in ChangeSet :
      EscapesBoundary(p) => p \notin Range(currentDirFilesOnly)

\* C3: the names left by the scope filter are names of the ChangeSet, and
\* none of them matches any of the ignore patterns.
C3_ScopeWithinChangeSetAndNotIgnored ==
  step = "filtered" =>
    /\ Range(combinedFiles) \subseteq ChangeSet
    /\ \A p \in Range(combinedFiles) :
         \A i \in 1..Len(ignore_patterns) :
           /\ ~GrepLine(ignore_patterns[i], p)
           /\ ~GrepSearch(ignore_patterns[i], p)

\* C3 witness: both filters dropped a name and a name survived
C3_Witness ==
  /\ step = "filtered"
  /\ ignore_patterns # <<>>
  /\ combinedFiles # <<>>
  /\ Len(combinedFiles) < Len(currentDirFilesOnly)
  /\ Len(currentDirFilesOnly) < Cardinality(ChangeSet)

\* C4: a name that passed the boundary filter is dropped by the ignore
\* patterns only if one of the patterns matches the entire name.
C4_DroppedOnlyOnWholeLineMatch ==
  step = "filtered" =>
    \A p \in Range(currentDirFilesOnly) \ Range(combinedFiles) :
      \E i \in 1..Len(ignore_patterns) : GrepLine(ignore_patterns[i], p)

-----------------------------------------------------------------------------
(* audit-mcp-server.ts: splitDiffByFiles *)

\* the file count up to which a diff is sent as one request
MaxUnsplitFiles == 2

\* the character length from which a diff of more files is split
SplitThreshold == 10000

\* the paths of the diffs handed to the dispatcher: "a.", "ab", "s/a"
ServerPaths == { <<"a", ".">>, <<"a", "b">>, <<"s", "/", "a">> }

\* the lines of those diffs: three headers and a long line, with lengths
\* that add up to one character below the threshold and to the threshold
ServerLines ==
  { Hdr(p) : p \in ServerPaths }
    \cup { Body(SplitThreshold - 66), Body(SplitThreshold - 65) }

ServerTexts ==
  {EmptyText} \cup UNION { [1..k -> ServerLines] : k \in 1..MaxLines }

\* String.length of a text: its lines and the newlines between them
RECURSIVE SumLen(_)
SumLen(t) == IF t = <<>> THEN 0 ELSE Head(t).len + SumLen(Tail(t))

TextLength(t) == SumLen(t) + (Len(t) - 1)

\* Map.set: a key already present keeps its place and takes the new value
MapSet(fileMap, key, value) ==
  IF \E i \in 1..Len(fileMap) : fileMap[i].file = key
    THEN [i \in 1..Len(fileMap) |->
            IF fileMap[i].file = key
              THEN [file |-> key, content |-> value] ELSE fileMap[i]]
    ELSE Append(fileMap, [file |-> key, content |-> value])

\* lines 145-148 and 160-162: store the segment collected so far
SaveCurrent(fileMap, currentFile, currentContent) ==
  IF currentFile # <<>> /\ Len(currentContent) > 0
    THEN MapSet(fileMap, currentFile, currentContent)
    ELSE fileMap

\* the forEach of lines 141-157 and the final save
RECURSIVE SplitLoop(_, _, _, _)
SplitLoop(lines, currentFile, currentContent, fileMap) ==
  IF lines = <<>> THEN SaveCurrent(fileMap, currentFile, currentContent)
  ELSE IF Head(lines).kind = "hdr"
    THEN SplitLoop(Tail(lines), Head(lines).path, <<Head(lines)>>,
                   SaveCurrent(fileMap, currentFile, currentContent))
  ELSE IF currentFile # <<>>
    THEN SplitLoop(Tail(lines), currentFile,
                   Append(currentContent, Head(lines)), fileMap)
  ELSE SplitLoop(Tail(lines), currentFile, currentContent, fileMap)

\* values of code_changes that are not strings: the field is absent, or
\* it is a number other than 0; in a template they print as "undefined"
\* and as a digit
Undefined == << [kind |-> "undefined", path |-> <<>>, len |-> 9] >>

NumberValue == << [kind |-> "number", path |-> <<>>, len |-> 1] >>

IsString(v) == v[1].kind \notin {"undefined", "number"}

\* !diffContent
Falsy(v) == v = EmptyText \/ v = Undefined

\* diffContent.split is not a function
SplitThrows(v) == ~Falsy(v) /\ ~IsString(v)

splitDiffByFiles(diffContent) ==
  IF Falsy(diffContent) THEN <<>>
  ELSE SplitLoop(diffContent, <<>>, <<>>, <<>>)

-----------------------------------------------------------------------------
(* audit-mcp-server.ts: the completion gateway *)

EnvUniverse ==
  [AI_PROVIDER : {"", "openai", "deepseek", "gemini"},
   DEFAULT_AI_PROVIDER : {"", "openai"},
   OPENAI_API_KEY : {"", "sk"},
   DEEPSEEK_API_KEY : {"", "sk"}]

\* what a provider answers: a completion, a body without the completion
\* field, or a status other than 2xx
Responses == {"ok", "nocontent", "status500"}

DEFAULT_PROVIDER(e) ==
  IF e.DEFAULT_AI_PROVIDER # "" THEN e.DEFAULT_AI_PROVIDER ELSE "deepseek"

getAIProvider(e) ==
  IF e.AI_PROVIDER # "" THEN e.AI_PROVIDER ELSE DEFAULT_PROVIDER(e)

\* the completion a provider returns for a call: a text of its own, whose
\* length differs from call to call
Completion(call) ==
  [kind |-> "completion", call |-> call, msg |-> "", len |-> 60 * call]

EmptyString == [kind |-> "empty", call |-> 0, msg |-> "", len |-> 0]

\* line 238: the five characters of the marker, then the message
ErrorMarker(message) ==
  [kind |-> "marker", call |-> 0, msg |-> message, len |-> 5 + Len(message)]

\* the whole result, however long
SubstringWhole(text) == text

\* result.substring(0, 100)
Substring100(text) ==
  [text EXCEPT !.len = IF text.len > 100 THEN 100 ELSE text.len]

Returned(text) == [ok |-> TRUE, text |-> text, error |-> ""]

Threw(message) == [ok |-> FALSE, text |-> EmptyString, error |-> message]

\* response.status and response.ok
Status(response) == IF response = "status500" THEN 500 ELSE 200

ResponseOk(response) == Status(response) \in 200..299

\* a provider call that turns every answer without a completion into ""
ProviderCompletionSwallowsErrors(name, call, response) ==
  IF response = "ok" THEN Returned(Completion(call))
  ELSE Returned(EmptyString)

\* callOpenAICompletion and callDeepSeekCompletion
ProviderCompletion(name, call, response) ==
  IF ~ResponseOk(response)
    THEN Threw(name \o " API error " \o ToString(Status(response)))
  ELSE IF response = "nocontent" THEN Returned(EmptyString)
  ELSE Returned(Completion(call))

callCompletion(e, call, response) ==
  CASE getAIProvider(e) = "openai" ->
         IF e.OPENAI_API_KEY = "" THEN Threw("OPENAI_API_KEY not set")
         ELSE ProviderCompletion("OpenAI", call, response)
    [] getAIProvider(e) = "deepseek" ->
         IF e.DEEPSEEK_API_KEY = "" THEN Threw("DEEPSEEK_API_KEY not set")
         ELSE ProviderCompletion("DeepSeek", call, response)
    [] OTHER -> Threw("unsupported provider")

\* callCompletion gets as far as the fetch of a provider
ReachesProvider(e) ==
  \/ getAIProvider(e) = "openai" /\ e.OPENAI_API_KEY # ""
  \/ getAIProvider(e) = "deepseek" /\ e.DEEPSEEK_API_KEY # ""

-----------------------------------------------------------------------------
(* audit-mcp-server.ts: performAudit and callOpenAIAudit *)

\* the messages of sendSingleAuditRequest, by the fields they embed
AuditMessages(code_changes, changed_files) ==
  [kind |-> "audit", code_changes |-> code_changes,
   changed_files |-> changed_files, items |-> <<>>]

\* the messages of the summary call: one item per entry of fileResults
SummaryMessages(results) ==
  [kind |-> "summary", code_changes |-> EmptyText, changed_files |-> <<>>,
   items |-> [i \in 1..Len(results) |->
                [file |-> results[i].file,
                 excerpt |-> Substring100(results[i].result)]]]

\* a piece of the report text
Part(kind, file, text) == [part |-> kind, file |-> file, text |-> text]

\* lines 244-246: a titled section per entry, with a rule between sections
RECURSIVE JoinSections(_)
JoinSections(results) ==
  IF results = <<>> THEN <<>>
  ELSE << Part("section title", Head(results).file, EmptyString),
          Part("text", <<>>, Head(results).result) >>
       \o (IF Len(results) > 1
             THEN << Part("rule", <<>>, EmptyString) >> ELSE <<>>)
       \o JoinSections(Tail(results))

\* the details placed before the summary
FinalReportDetailsFirst(summaryResult, combined) ==
  << Part("detail title", <<>>, EmptyString) >> \o combined
    \o << Part("summary title", <<>>, EmptyString),
          Part("text", <<>>, summaryResult) >>

\* line 269
FinalReport(summaryResult, combined) ==
  << Part("summary title", <<>>, EmptyString),
     Part("text", <<>>, summaryResult),
     Part("detail title", <<>>, EmptyString) >> \o combined

\* a call whose promise is not awaited
AwaitNothing(calls) == TRUE

\* await: the caller goes on only when the promise has settled
AwaitSettled(calls) == calls = {}

\* the header paths of a text without repetitions, in order of appearance
RECURSIVE FirstOccurrences(_)
FirstOccurrences(paths) ==
  IF paths = <<>> THEN <<>>
  ELSE LET init == FirstOccurrences(SubSeq(paths, 1, Len(paths) - 1))
           last == paths[Len(paths)]
       IN IF last \in Range(init) THEN init ELSE Append(init, last)

InitAudit ==
  /\ ScriptIdle
  /\ BuilderIdle
  /\ HttpIdle
  /\ pc = "start"
  /\ env \in EnvUniverse
  /\ \E t \in ServerTexts :
       inputData = [code_changes |-> t,
                    changed_files |-> FirstOccurrences(HeaderPaths(t))]
  /\ fileDiffs = <<>>
  /\ nextFile = 1
  /\ sent = <<>>
  /\ inflight = {}
  /\ returns = <<>>
  /\ responses = <<>>
  /\ fileResults = <<>>
  /\ combinedResults = <<>>
  /\ aiReport = <<>>
  /\ reportFiles = <<>>
  /\ outcome = "none"

\* fs.writeFileSync: the file is created, or its content is replaced
writeFileSync(files, path, content) ==
  IF \E i \in 1..Len(files) : files[i].path = path
    THEN [i \in 1..Len(files) |->
            IF files[i].path = path
              THEN [path |-> path, content |-> content] ELSE files[i]]
    ELSE Append(files, [path |-> path, content |-> content])

\* lines 500-501: the name of a report is the time of the call to the
\* millisecond, in a notation that tells any two milliseconds apart
ReportPath(now) == [dir |-> "audits/reports", timestamp |-> now]

\* lines 494-505
saveAuditReport(files, now, report) ==
  writeFileSync(files, ReportPath(now), report)

\* a catch that stores what there is of the report before it rethrows
OnAuditErrorSavesPartial(files, now, report) ==
  saveAuditReport(files, now, report)

\* lines 541-544: the catch of performAudit logs and rethrows
OnAuditError(files, now, report) == files

\* the two branches of line 204 the wrong way round
SendsSingleRequestInverted(size, length) ==
  ~(size <= MaxUnsplitFiles \/ length < SplitThreshold)

\* line 204: few files, or a short diff, go out as one request
SendsSingleRequest(size, length) ==
  size <= MaxUnsplitFiles \/ length < SplitThreshold

\* performAudit enters callOpenAIAudit: lines 194-212
Begin ==
  /\ pc = "start"
  /\ IF env.OPENAI_API_KEY = "" \/ SplitThrows(inputData.code_changes)
       THEN /\ pc' = "failed"
            /\ outcome' = IF env.OPENAI_API_KEY = ""
                            THEN "OPENAI_API_KEY not set"
                            ELSE "TypeError: split is not a function"
            /\ reportFiles' = OnAuditError(reportFiles, clock, aiReport)
            /\ UNCHANGED fileDiffs
       ELSE /\ fileDiffs' = splitDiffByFiles(inputData.code_changes)
            /\ pc' = IF SendsSingleRequest(Len(fileDiffs'),
                                            TextLength(inputData.code_changes))
                       THEN "single" ELSE "files"
            /\ UNCHANGED << outcome, reportFiles >>
  /\ UNCHANGED << env, inputData, nextFile, sent, inflight, returns,
                  fileResults, combinedResults, aiReport >>
  /\ UNCHANGED << shVars, rbVars, httpVars, responses >>

\* line 205: the one request for the whole diff
DispatchSingle ==
  /\ pc = "single"
  /\ sent' = Append(sent, AuditMessages(inputData.code_changes,
                                        inputData.changed_files))
  /\ inflight' = inflight \cup {Len(sent) + 1}
  /\ pc' = "await single"
  /\ UNCHANGED << env, inputData, fileDiffs, nextFile, returns, fileResults,
                  combinedResults, aiReport, reportFiles, outcome >>
  /\ UNCHANGED << shVars, rbVars, httpVars, responses >>

\* lines 215-229: the request for the next entry of fileDiffs
DispatchFile ==
  /\ pc = "files"
  /\ nextFile <= Len(fileDiffs)
  /\ AwaitSettled(inflight)
  /\ sent' = Append(sent, AuditMessages(fileDiffs[nextFile].content,
                                        <<fileDiffs[nextFile].file>>))
  /\ inflight' = inflight \cup {Len(sent) + 1}
  /\ nextFile' = nextFile + 1
  /\ UNCHANGED << pc, env, inputData, fileDiffs, returns, fileResults,
                  combinedResults, aiReport, reportFiles, outcome >>
  /\ UNCHANGED << shVars, rbVars, httpVars, responses >>

\* lines 244-266: after the loop, the summary call
DispatchSummary ==
  /\ pc = "files"
  /\ nextFile > Len(fileDiffs)
  /\ AwaitSettled(inflight)
  /\ combinedResults' = JoinSections(fileResults)
  /\ sent' = Append(sent, SummaryMessages(fileResults))
  /\ inflight' = inflight \cup {Len(sent) + 1}
  /\ pc' = "await summary"
  /\ UNCHANGED << env, inputData, fileDiffs, nextFile, returns, fileResults,
                  aiReport, reportFiles, outcome >>
  /\ UNCHANGED << shVars, rbVars, httpVars, responses >>

\* a catch that pushes the text of the failed call, which is empty
FileAuditResultWithoutMarker(r) == r.text

\* lines 227-240: the result pushed for a file is the completion, or the
\* error marker when the call threw
FileAuditResult(r) == IF r.ok THEN r.text ELSE ErrorMarker(r.error)

\* an await that lets no rejection through
PropagatesNever(r) == FALSE

\* lines 205 and 260-266: the await stands in no try block, so a call that
\* threw ends callOpenAIAudit with its error
Propagates(r) == ~r.ok

\* a call of callCompletion settles, and the code after its await runs
CallSettles(call, response) ==
  /\ call \in inflight
  /\ inflight' = inflight \ {call}
  /\ returns' = [c \in DOMAIN returns \cup {call} |->
                  IF c = call THEN callCompletion(env, call, response)
                  ELSE returns[c]]
  /\ LET r == callCompletion(env, call, response)
     IN IF sent[call].kind = "audit" /\ pc # "await single"
          THEN \* lines 230-239: the result or the error marker of the file
               /\ fileResults' =
                    Append(fileResults,
                           [file |-> sent[call].changed_files[1],
                            result |-> FileAuditResult(r)])
               /\ UNCHANGED << pc, aiReport, outcome, reportFiles >>
          ELSE \* lines 205 and 260-269; performAudit goes on or rethrows
               /\ IF ~Propagates(r)
                    THEN /\ aiReport' =
                              IF sent[call].kind = "summary"
                                THEN FinalReport(r.text, combinedResults)
                                ELSE << Part("text", <<>>, r.text) >>
                         /\ pc' = "save"
                         /\ UNCHANGED << outcome, reportFiles >>
                    ELSE /\ pc' = "failed"
                         /\ outcome' = r.error
                         /\ reportFiles' =
                              OnAuditError(reportFiles, clock, aiReport)
                         /\ UNCHANGED aiReport
               /\ UNCHANGED fileResults
  /\ responses' = IF ReachesProvider(env)
                    THEN [c \in DOMAIN responses \cup {call} |->
                            IF c = call THEN response ELSE responses[c]]
                    ELSE responses
  /\ UNCHANGED << env, inputData, fileDiffs, nextFile, sent,
                  combinedResults >>
  /\ UNCHANGED << shVars, rbVars, httpVars >>

\* lines 524-540: saveAuditReport, then the success result
SaveReport ==
  /\ pc = "save"
  /\ reportFiles' = saveAuditReport(reportFiles, clock, aiReport)
  /\ outcome' = "success"
  /\ pc' = "done"
  /\ UNCHANGED << env, inputData, fileDiffs, nextFile, sent, inflight,
                  returns, fileResults, combinedResults, aiReport >>
  /\ UNCHANGED << shVars, rbVars, httpVars, responses >>

CompletionSettles ==
  \E call \in inflight : \E response \in Responses :
    CallSettles(call, response)

NextAudit ==
  \/ Begin
  \/ DispatchSingle
  \/ DispatchFile
  \/ DispatchSummary
  \/ CompletionSettles
  \/ SaveReport

SpecAudit == InitAudit /\ [][NextAudit]_vars

-----------------------------------------------------------------------------
(* Properties of the dispatcher and the aggregator *)

\* the FileSegments of a text: each header line with the lines up to the
\* next header line or the end of the text
RECURSIVE SegmentEnd(_, _)
SegmentEnd(t, i) ==
  IF i + 1 > Len(t) \/ t[i + 1].kind = "hdr" THEN i ELSE SegmentEnd(t, i + 1)

RECURSIVE FileSegmentsFrom(_, _)
FileSegmentsFrom(t, i) ==
  IF i > Len(t) THEN <<>>
  ELSE (IF t[i].kind = "hdr"
          THEN << [file |-> t[i].path,
                   content |-> SubSeq(t, i, SegmentEnd(t, i))] >>
          ELSE <<>>)
       \o FileSegmentsFrom(t, i + 1)

FileSegments(t) == FileSegmentsFrom(t, 1)

\* the calls of sendSingleAuditRequest made so far
AuditRequests == SelectSeq(sent, LAMBDA m : m.kind = "audit")

SummarySent == \E i \in 1..Len(sent) : sent[i].kind = "summary"

\* the run took the branch that splits the diff
MultiSegmentRun == pc \in {"files", "await summary"} \/ SummarySent

\* C5: the dispatcher sends one request for the whole diff if the diff has
\* at most 2 FileSegments or fewer than 10,000 characters, and otherwise
\* one request per FileSegment, with that segment's text and its path as
\* the only changed file.
C5_OneRequestOrOnePerSegment ==
  pc \in {"save", "done"} =>
    LET segments == FileSegments(inputData.code_changes)
    IN IF \/ Len(segments) <= 2
          \/ TextLength(inputData.code_changes) < 10000
         THEN AuditRequests =
                << AuditMessages(inputData.code_changes,
                                 inputData.changed_files) >>
         ELSE /\ Len(AuditRequests) = Len(segments)
              /\ \A i \in 1..Len(segments) :
                   AuditRequests[i] =
                     AuditMessages(segments[i].content, <<segments[i].file>>)

\* C6: in a run that splits the diff, a failed completion call for one
\* file does not end the run.  The run fails only in the summary call, by
\* when every file has been dispatched; every file has its result in
\* dispatch order, the error marker where its call threw and the completion
\* otherwise; and the report of a run that ends well carries these results.
C6_FileFailureIsolated ==
  MultiSegmentRun =>
    /\ pc = "failed" =>
         /\ Len(sent) = Len(fileDiffs) + 1
         /\ sent[Len(sent)].kind = "summary"
    /\ SummarySent => Len(fileResults) = Len(fileDiffs)
    /\ \A i \in 1..Len(fileResults) :
         /\ i \in DOMAIN returns
         /\ fileResults[i].file = fileDiffs[i].file
         /\ fileResults[i].result =
              IF returns[i].ok THEN returns[i].text
              ELSE ErrorMarker(returns[i].error)
    /\ pc \in {"save", "done"} =>
         \A i \in 1..Len(fileDiffs) :
           \E k \in 1..(Len(aiReport) - 1) :
             /\ aiReport[k] =
                  Part("section title", fileDiffs[i].file, EmptyString)
             /\ aiReport[k + 1] = Part("text", <<>>, fileResults[i].result)

\* C6 witness: three files, the call of the second failed, the others
\* returned completions, and the report is stored
C6_Witness ==
  /\ pc = "done"
  /\ Len(fileDiffs) = 3
  /\ Len(fileResults) = 3
  /\ fileResults[1].result.kind = "completion"
  /\ fileResults[2].result.kind = "marker"
  /\ fileResults[3].result.kind = "completion"
  /\ Len(reportFiles) = 1

\* the files of the titled sections of a report, in order
SectionFiles(report) ==
  LET titles == SelectSeq(report, LAMBDA x : x.part = "section title")
  IN [i \in 1..Len(titles) |-> titles[i].file]

\* C7: the report of a run that splits the diff is the summary followed by
\* the sections of the files: one titled section per request sent for a
\* file, in the order in which the files appear in the diff, whatever the
\* calls returned.
C7_SummaryThenSectionsInDiffOrder ==
  (MultiSegmentRun /\ pc \in {"save", "done"}) =>
    /\ Len(aiReport) >= 3
    /\ aiReport[1].part = "summary title"
    /\ aiReport[2] = Part("text", <<>>, returns[Len(sent)].text)
    /\ aiReport[3].part = "detail title"
    /\ \A k \in 1..3 : aiReport[k].part # "section title"
    /\ SectionFiles(aiReport) =
         [i \in 1..Len(AuditRequests) |-> AuditRequests[i].changed_files[1]]
    /\ SectionFiles(aiReport) =
         FirstOccurrences(HeaderPaths(inputData.code_changes))

\* C7 witness: a report with three sections, one of them an error marker
C7_Witness ==
  /\ pc = "done"
  /\ Len(SectionFiles(aiReport)) = 3
  /\ \E i \in 1..3 : fileResults[i].result.kind = "marker"
  /\ \E i \in 1..3 : fileResults[i].result.kind = "completion"

\* C8: completion calls of a run are sequential.  At most one call is
\* unsettled, and it is the call sent last, so a call starts only when
\* every earlier one has settled; the summary call is sent only when the
\* call of every file has been sent and has settled.
C8_CallsSequential ==
  /\ Cardinality(inflight) <= 1
  /\ inflight \subseteq {Len(sent)}
  /\ \A i \in 1..Len(sent) :
       sent[i].kind = "summary" =>
         /\ i = Len(fileDiffs) + 1
         /\ \A j \in 1..(i - 1) : j \in DOMAIN returns /\ j \notin inflight

\* C8 witness: the summary call is unsettled after three settled file
\* calls, one of which threw
C8_Witness ==
  /\ pc = "await summary"
  /\ inflight = {4}
  /\ DOMAIN returns = 1..3
  /\ \E j \in 1..3 : ~returns[j].ok

\* the request carries an empty diff and an empty list of changed files
EmptyRequest ==
  inputData.code_changes = EmptyText /\ inputData.changed_files = <<>>

\* C9 as stated: for an empty diff and an empty list of changed files the
\* dispatcher sends no request to the completion gateway.
C9_EmptyDiffSendsNothing == EmptyRequest => sent = <<>>

\* C9 as amended: for an empty diff and an empty list of changed files the
\* dispatcher, once past its OPENAI_API_KEY check, sends exactly one
\* request, the single request for the whole (empty) diff.
C9_EmptyDiffSendsOneRequest ==
  EmptyRequest =>
    /\ Len(sent) <= 1
    /\ (env.OPENAI_API_KEY # "" /\ pc \notin {"start", "single"}) =>
         sent = << AuditMessages(EmptyText, <<>>) >>

\* C9 witness: the run for the empty diff ended with one request sent
C9_Witness == EmptyRequest /\ pc = "done" /\ Len(sent) = 1

\* C10: a missing credential is fatal only for the provider it belongs to:
\* a run whose provider has its own credential does not fail for the
\* credential of the other provider.
C10_OtherCredentialNotNeeded ==
  /\ (getAIProvider(env) = "deepseek" /\ env.DEEPSEEK_API_KEY # "") =>
       outcome # "OPENAI_API_KEY not set"
  /\ (getAIProvider(env) = "openai" /\ env.OPENAI_API_KEY # "") =>
       outcome # "DEEPSEEK_API_KEY not set"

-----------------------------------------------------------------------------
(* Properties of the completion gateway and of performAudit *)

\* the error callCompletion throws under a configuration, if it throws one
\* before it reaches a provider: the credential of the selected provider
\* is missing, or the selector names no supported provider
ConfigError(e) ==
  IF callCompletion(e, 1, "ok").ok THEN ""
  ELSE callCompletion(e, 1, "ok").error

\* C11: a provider configuration error is fatal for the run on the
\* single-request path and on the multi-segment path: no report file is
\* written, no success result is returned, and a run that has ended has
\* failed with that error.
C11_ConfigErrorFatal ==
  ConfigError(env) # "" =>
    /\ reportFiles = <<>>
    /\ outcome # "success"
    /\ pc \notin {"save", "done"}
    /\ pc = "failed" => outcome = ConfigError(env)

-----------------------------------------------------------------------------
(* Properties of the provider calls *)

\* the name a provider call puts into its error
ProviderName(e) == IF getAIProvider(e) = "openai" THEN "OpenAI" ELSE "DeepSeek"

\* C15: a provider response with a status outside 2xx makes the completion
\* call fail with an error that carries the provider name and the status;
\* a call returns the empty string only for a 2xx response without
\* completion text; a call that failed never returns.
C15_FailureSurfacedNotEmptied ==
  \A c \in DOMAIN returns :
    /\ (c \in DOMAIN responses /\ Status(responses[c]) \notin 200..299) =>
         /\ ~returns[c].ok
         /\ returns[c].error =
              ProviderName(env) \o " API error "
                \o ToString(Status(responses[c]))
    /\ (returns[c].ok /\ returns[c].text = EmptyString) =>
         /\ c \in DOMAIN responses
         /\ Status(responses[c]) \in 200..299
         /\ responses[c] = "nocontent"
    /\ c \notin DOMAIN responses => ~returns[c].ok

\* C15 witness: of three calls one got a 500 and threw, one got a body
\* without completion text and returned the empty string
C15_Witness ==
  /\ DOMAIN returns = 1..3
  /\ DOMAIN responses = 1..3
  /\ \E c \in 1..3 : responses[c] = "status500" /\ ~returns[c].ok
  /\ \E c \in 1..3 :
       /\ responses[c] = "nocontent"
       /\ returns[c] = Returned(EmptyString)

\* every completion call of the run has been made and has returned
AllCallsReturned ==
  /\ sent # <<>>
  /\ inflight = {}
  /\ DOMAIN returns = 1..Len(sent)
  /\ \/ Len(sent) = 1 /\ sent[1].kind = "audit"
     \/ /\ Len(sent) = Len(fileDiffs) + 1
        /\ sent[Len(sent)].kind = "summary"

\* C17: a run of performAudit writes the report file at most once, and
\* only when every completion call of the run has returned; a run that
\* has failed, or is stopped before that point, has written no file; and
\* the success result is returned only with the file written.
C17_ReportWrittenOnceAfterAllCalls ==
  /\ [](/\ Len(reportFiles) <= 1
        /\ reportFiles # <<>> =>
             /\ AllCallsReturned
             /\ pc = "done"
             /\ reportFiles[1].content = aiReport
        /\ pc \in {"start", "single", "await single", "files",
                   "await summary", "save", "failed"} =>
             reportFiles = <<>>
        /\ outcome = "success" => Len(reportFiles) = 1)
  /\ [][reportFiles' # reportFiles =>
          reportFiles = <<>> /\ AllCallsReturned /\ pc = "save"]_vars

\* C17 witness: a split run of three files has stored its report after
\* its four calls, one of which threw
C17_Witness ==
  /\ pc = "done"
  /\ outcome = "success"
  /\ Len(sent) = 4
  /\ \E c \in DOMAIN returns : ~returns[c].ok
  /\ Len(reportFiles) = 1

-----------------------------------------------------------------------------
(* The request builders: pre_audit.sh (steps 2-9), audit-shortcut.js and
   auto-audit.js *)

Builders == {"pre_audit.sh", "audit-shortcut.js", "auto-audit.js"}

\* a line of n whitespace characters
Spaces(n) == [kind |-> "spaces", path |-> <<>>, len |-> n]

\* "// ..." of 18 characters, returned when git diff cannot be run
Placeholder == << [kind |-> "comment", path |-> <<>>, len |-> 18] >>

\* what git answers.  It does not work (not installed, not a repository),
\* or it has a set of staged and a set of unstaged paths, and prints
\* patches itself or through an external diff driver that prints blanks
GitUniverse ==
  { [works |-> FALSE, external |-> FALSE, staged |-> {}, unstaged |-> {}] }
    \cup [works : {TRUE}, external : BOOLEAN,
          staged : SUBSET PathUniverse, unstaged : SUBSET PathUniverse]

\* the lines of a diff of the named files: per file its header line and a
\* line of the patch, or the blank line of the external driver
RECURSIVE DiffLines(_, _)
DiffLines(g, names) ==
  IF names = <<>> THEN <<>>
  ELSE (IF g.external THEN << Spaces(1) >>
        ELSE << Hdr(Head(names)), Body(1) >>)
       \o DiffLines(g, Tail(names))

\* git diff [--cached]: exit status and standard output, every line of
\* which ends with a newline
GitDiff(g, paths) ==
  [ok |-> g.works,
   stdout |-> IF g.works /\ paths # {}
                THEN DiffLines(g, SortedSeq(paths)) \o EmptyText
                ELSE EmptyText]

\* git diff [--cached] --name-only: the names in path order, one per line
GitNameOnly(g, paths) ==
  [ok |-> g.works,
   stdout |-> IF g.works THEN SortedSeq(paths) \o << <<>> >> ELSE << <<>> >>]

\* the number of characters of a text that are not whitespace
RECURSIVE NonSpaceLength(_)
NonSpaceLength(t) ==
  IF t = <<>> THEN 0
  ELSE (IF Head(t).kind = "spaces" THEN 0 ELSE Head(t).len)
       + NonSpaceLength(Tail(t))

\* tr -d '[:space:]': the length of what is left
TrDeleteSpace(t) == NonSpaceLength(t)

\* String.trim(): the text is not empty once trimmed
TrimTruthy(t) == NonSpaceLength(t) > 0

\* split("\n").filter(Boolean), and the shell loops that skip empty lines
FilterBoolean(lines) == SelectSeq(lines, LAMBDA l : l # <<>>)

\* the test of line 118 with its second half left out
ShStagedPreferredUntrimmed(diffCached) == diffCached # EmptyText

\* pre_audit.sh line 118
ShStagedPreferred(diffCached) ==
  diffCached # EmptyText /\ TrDeleteSpace(diffCached) > 0

\* pre_audit.sh lines 115-124: a failed query counts as one without output
ShCodeChanges(g) ==
  LET diffCached == StripTrailingNewlines(GitDiff(g, g.staged).stdout)
  IN IF ShStagedPreferred(diffCached) THEN diffCached
     ELSE StripTrailingNewlines(GitDiff(g, g.unstaged).stdout)

\* audit-shortcut.js lines 6-20
getLatestChanges(g) ==
  IF ~GitDiff(g, g.staged).ok THEN Placeholder
  ELSE IF TrimTruthy(GitDiff(g, g.staged).stdout)
    THEN GitDiff(g, g.staged).stdout
  ELSE IF ~GitDiff(g, g.unstaged).ok THEN Placeholder
  ELSE GitDiff(g, g.unstaged).stdout

\* auto-audit.js (audit-http-server.ts lines 128-140)
getLatestChangesAuto(g) ==
  IF ~GitDiff(g, g.staged).ok THEN Placeholder
  ELSE IF ~TrimTruthy(GitDiff(g, g.staged).stdout)
    THEN (IF ~GitDiff(g, g.unstaged).ok THEN Placeholder
          ELSE GitDiff(g, g.unstaged).stdout)
  ELSE GitDiff(g, g.staged).stdout

\* audit-shortcut.js lines 42-58
getChangedFiles(g) ==
  IF ~GitNameOnly(g, g.staged).ok \/ ~GitNameOnly(g, g.unstaged).ok
    THEN <<>>
    ELSE FirstOccurrences(FilterBoolean(GitNameOnly(g, g.staged).stdout)
                          \o FilterBoolean(GitNameOnly(g, g.unstaged).stdout))

\* auto-audit.js (audit-http-server.ts lines 158-169)
getChangedFilesAuto(g) ==
  IF ~GitNameOnly(g, g.staged).ok \/ ~GitNameOnly(g, g.unstaged).ok
    THEN <<>>
    ELSE FirstOccurrences(FilterBoolean(GitNameOnly(g, g.staged).stdout)
                          \o FilterBoolean(GitNameOnly(g, g.unstaged).stdout))

\* args.join(" ")
ArgsJoin(words) ==
  IF words = <<>> THEN EmptyText
  ELSE << Body(SumLen(words) + (Len(words) - 1)) >>

\* task_list.txt: missing, empty, a newline, or a line of text
TaskLists ==
  { [exists |-> FALSE, content |-> EmptyText],
    [exists |-> TRUE, content |-> EmptyText],
    [exists |-> TRUE, content |-> << EmptyLine, EmptyLine >>],
    [exists |-> TRUE, content |-> << Body(3), EmptyLine >>] }

\* the words after "@audit" or after the name of the script
ArgLists == { <<>>, << Body(0) >>, << Body(3) >>, << Body(3), Body(2) >> }

\* the .auditignore files of the runs of the script
BuilderPatterns ==
  { <<>>, << <<"a">> >>, << <<"s", "/", ".", "*">> >> }

\* the fields of the request that depend on the run
RequestParams(description, code_changes, changed_files) ==
  [modification_description |-> description, code_changes |-> code_changes,
   changed_files |-> changed_files]

InitBuilder ==
  /\ builder \in Builders
  /\ git \in GitUniverse
  /\ step = "description"
  /\ IF builder = "pre_audit.sh"
       THEN /\ task_list \in TaskLists
            /\ args = <<>>
            /\ currentAbsPath \in CwdUniverse
            /\ ignore_patterns \in BuilderPatterns
       ELSE /\ task_list = [exists |-> FALSE, content |-> EmptyText]
            /\ args \in ArgLists
            /\ currentAbsPath = <<>>
            /\ ignore_patterns = <<>>
  /\ modificationDescription = EmptyText
  /\ changedFiles = <<>>
  /\ requestJson = <<>>
  /\ stagedFiles = <<>>
  /\ unstagedFiles = <<>>
  /\ unresolvable = {}
  /\ combinedFiles = <<>>
  /\ currentDirFilesOnly = <<>>
  /\ totalFileCount = 0
  /\ currentDirFileCount = 0
  /\ excludedCount = 0
  /\ codeChanges = EmptyText
  /\ original_diff = EmptyText
  /\ scoped = <<>>
  /\ unexpected_files = <<>>
  /\ diff_file_count = 0
  /\ ServerIdle
  /\ HttpIdle

\* pre_audit.sh lines 77-87, audit-shortcut.js line 73, auto-audit.js
\* lines 201-207
ReadDescription ==
  /\ step = "description"
  /\ CASE builder = "pre_audit.sh" ->
            IF ~task_list.exists
              THEN /\ step' = "exit"
                   /\ UNCHANGED modificationDescription
              ELSE /\ modificationDescription' =
                        StripTrailingNewlines(task_list.content)
                   /\ step' = IF modificationDescription' = EmptyText
                                THEN "exit" ELSE "diff"
       [] builder = "audit-shortcut.js" ->
            /\ modificationDescription' = ArgsJoin(args)
            /\ step' = "diff"
       [] OTHER ->
            IF Len(args) = 0
              THEN /\ step' = "exit"
                   /\ UNCHANGED modificationDescription
              ELSE /\ modificationDescription' = ArgsJoin(args)
                   /\ step' = "diff"
  /\ UNCHANGED << stagedFiles, unstagedFiles, currentAbsPath, unresolvable,
                  ignore_patterns, combinedFiles, currentDirFilesOnly,
                  totalFileCount, currentDirFileCount, excludedCount,
                  codeChanges, original_diff, scoped, unexpected_files,
                  diff_file_count >>
  /\ UNCHANGED << builder, git, task_list, args, changedFiles, requestJson >>
  /\ UNCHANGED << tsVars, httpVars >>

\* the DiffSource resolver of each builder: the diff text
ResolveDiff ==
  /\ step = "diff"
  /\ codeChanges' =
       CASE builder = "pre_audit.sh" -> ShCodeChanges(git)
         [] builder = "audit-shortcut.js" -> getLatestChanges(git)
         [] OTHER -> getLatestChangesAuto(git)
  /\ step' = "list"
  /\ UNCHANGED << stagedFiles, unstagedFiles, currentAbsPath, unresolvable,
                  ignore_patterns, combinedFiles, currentDirFilesOnly,
                  totalFileCount, currentDirFileCount, excludedCount,
                  original_diff, scoped, unexpected_files, diff_file_count >>
  /\ UNCHANGED rbVars
  /\ UNCHANGED << tsVars, httpVars >>

\* the DiffSource resolver of each builder: the changed names.  The script
\* goes on to sort -u and its filters, the others to their request
ResolveNames ==
  /\ step = "list"
  /\ stagedFiles' = FilterBoolean(GitNameOnly(git, git.staged).stdout)
  /\ unstagedFiles' = FilterBoolean(GitNameOnly(git, git.unstaged).stdout)
  /\ CASE builder = "pre_audit.sh" ->
            /\ step' = "names"
            /\ UNCHANGED changedFiles
       [] builder = "audit-shortcut.js" ->
            /\ changedFiles' = getChangedFiles(git)
            /\ step' = "request"
       [] OTHER ->
            /\ changedFiles' = getChangedFilesAuto(git)
            /\ step' = "request"
  /\ UNCHANGED << currentAbsPath, unresolvable, ignore_patterns,
                  combinedFiles, currentDirFilesOnly, totalFileCount,
                  currentDirFileCount, excludedCount, codeChanges,
                  original_diff, scoped, unexpected_files, diff_file_count >>
  /\ UNCHANGED << builder, git, task_list, args, modificationDescription,
                  requestJson >>
  /\ UNCHANGED << tsVars, httpVars >>

\* pre_audit.sh lines 211-222: the names are counted and reported
CountFiles ==
  /\ step = "filtered"
  /\ step' = "restrict"
  /\ UNCHANGED << stagedFiles, unstagedFiles, currentAbsPath, unresolvable,
                  ignore_patterns, combinedFiles, currentDirFilesOnly,
                  totalFileCount, currentDirFileCount, excludedCount,
                  codeChanges, original_diff, scoped, unexpected_files,
                  diff_file_count >>
  /\ UNCHANGED rbVars
  /\ UNCHANGED << tsVars, httpVars >>

\* pre_audit.sh lines 336-368 (changed_files is jq -R over the echoed
\* list), audit-shortcut.js lines 82-106, auto-audit.js lines 176-212
BuildRequest ==
  /\ step = "request"
  /\ requestJson' =
       Append(requestJson,
              IF builder = "pre_audit.sh"
                THEN RequestParams(modificationDescription, codeChanges,
                                   EchoLines(combinedFiles))
                ELSE RequestParams(modificationDescription, codeChanges,
                                   changedFiles))
  /\ step' = "done"
  /\ UNCHANGED << stagedFiles, unstagedFiles, currentAbsPath, unresolvable,
                  ignore_patterns, combinedFiles, currentDirFilesOnly,
                  totalFileCount, currentDirFileCount, excludedCount,
                  codeChanges, original_diff, scoped, unexpected_files,
                  diff_file_count >>
  /\ UNCHANGED << builder, git, task_list, args, modificationDescription,
                  changedFiles >>
  /\ UNCHANGED << tsVars, httpVars >>

NextBuilder ==
  \/ ReadDescription
  \/ ResolveDiff
  \/ ResolveNames
  \/ CombineNames
  \/ BoundaryStep
  \/ IgnoreStep
  \/ CountFiles
  \/ RestrictStep
  \/ VerifyStep
  \/ BuildRequest

SpecBuilder == InitBuilder /\ [][NextBuilder]_vars

-----------------------------------------------------------------------------
(* Properties of the DiffSource resolver and of the request builders *)

\* what git prints for the staged and for the unstaged changes
StagedDiff == GitDiff(git, git.staged).stdout

UnstagedDiff == GitDiff(git, git.unstaged).stdout

\* the text has a character that is not whitespace
HasVisibleCharacter(t) ==
  \E i \in 1..Len(t) : t[i].kind # "spaces" /\ t[i].len > 0

\* the diff the contract of the resolver selects
PreferredDiff ==
  IF HasVisibleCharacter(StagedDiff) THEN StagedDiff ELSE UnstagedDiff

\* C12 as stated: in every request builder the resolver returns the staged
\* diff verbatim if it is not empty after stripping whitespace, and the
\* unstaged diff otherwise.
C12_StagedPreferredVerbatim ==
  step = "list" => codeChanges = PreferredDiff

\* C12 as amended: the resolver selects the staged diff if it is not empty
\* after stripping whitespace and the unstaged diff otherwise; the shortcut
\* and auto-audit return the selected diff verbatim, pre_audit.sh returns
\* it without the newlines at its end; when git cannot be run the script
\* returns the empty text and the other two their placeholder line.
C12_StagedPreferred ==
  step = "list" =>
    IF builder = "pre_audit.sh"
      THEN codeChanges = StripTrailingNewlines(PreferredDiff)
      ELSE codeChanges = IF git.works THEN PreferredDiff ELSE Placeholder

\* C12 witness: the script has returned a staged diff, which differs from
\* what git printed by the newline at its end
C12_Witness ==
  /\ step = "list"
  /\ builder = "pre_audit.sh"
  /\ git.staged # {}
  /\ git.unstaged # {}
  /\ git.staged # git.unstaged
  /\ ~git.external
  /\ codeChanges = StripTrailingNewlines(StagedDiff)
  /\ codeChanges # StagedDiff

\* C13: when the version-control queries fail, the resolver of every
\* builder returns an empty diff text and an empty list of changed paths.
C13_GitFailureGivesEmpty ==
  ~git.works =>
    /\ step \in {"list", "names", "request", "done"} =>
         codeChanges = EmptyText
    /\ step \in {"request", "done"} =>
         changedFiles = <<>> /\ combinedFiles = <<>>

\* the list of changed paths the resolver has returned
ResolvedChangeSet ==
  IF builder = "pre_audit.sh" THEN combinedFiles ELSE changedFiles

\* C14: the ChangeSet the resolver returns is the union of the staged and
\* the unstaged names without duplicates, in lexical order, in every
\* request builder.
C14_ChangeSetSortedUnion ==
  (\/ builder = "pre_audit.sh" /\ step = "boundary"
   \/ builder # "pre_audit.sh" /\ step = "request") =>
    /\ Range(ResolvedChangeSet) = git.staged \cup git.unstaged
    /\ \A i, j \in 1..Len(ResolvedChangeSet) :
         i < j => LexLess(ResolvedChangeSet[i], ResolvedChangeSet[j])

\* the description the builder was given is the empty string
EmptyDescriptionGiven ==
  IF builder = "pre_audit.sh"
    THEN task_list.exists /\ task_list.content = EmptyText
    ELSE SumLen(args) + Len(args) <= 1

\* C18: every builder rejects an empty modification description: no
\* request is produced for it.
C18_EmptyDescriptionRejected ==
  /\ EmptyDescriptionGiven => requestJson = <<>>
  /\ \A i \in 1..Len(requestJson) :
       requestJson[i].modification_description # EmptyText

-----------------------------------------------------------------------------
(* audit-http-server.ts: the JSON-RPC endpoint, and the process in which
   the runs of performAudit share the clock and the report directory *)

\* the clock readings of a behaviour
MaxClock == 2

\* the other runs of the process that store a report
MaxOtherRuns == 1

\* what a field of params may be: a string, absent, or a number
FieldTypes == {"string", "missing", "number"}

\* a diff of one file, and a diff of three files and 10,000 characters
SmallDiff == << Hdr(<<"a", ".">>), Body(1) >>

LargeDiff ==
  << Hdr(<<"a", ".">>), Hdr(<<"a", "b">>), Hdr(<<"s", "/", "a">>),
     Body(SplitThreshold - 65) >>

NoParams == [present |-> FALSE]

\* the params objects: all three text fields are strings, or one of them
\* is not, or all three are absent; code_changes is a diff, absent or a
\* number
ParamsUniverse ==
  { p \in [present : {TRUE}, request : FieldTypes,
           modification_description : FieldTypes,
           function_list : FieldTypes,
           code_changes : {SmallDiff, LargeDiff, Undefined, NumberValue}] :
      \/ Cardinality({ f \in {"request", "modification_description",
                              "function_list"} : p[f] # "string" }) <= 1
      \/ /\ p.request = "missing"
         /\ p.modification_description = "missing"
         /\ p.function_list = "missing" }

\* req.body: the method is absent (""), "tool/audit" or another one
HttpBodies ==
  [method : {"", "tool/audit", "other"},
   params : {NoParams} \cup ParamsUniverse]

\* the configurations of the process
HttpEnvs ==
  { e \in EnvUniverse :
      /\ e.DEFAULT_AI_PROVIDER = ""
      /\ e.AI_PROVIDER \in {"", "openai"}
      /\ e.DEEPSEEK_API_KEY = ""
      /\ e.AI_PROVIDER = "" => e.OPENAI_API_KEY = "sk" }

\* the report of another run: a text of its own
OtherReport(k) == << Part("text", <<>>, Completion(100 + k)) >>

InitHttp ==
  /\ ScriptIdle
  /\ BuilderIdle
  /\ pc = "http"
  /\ env \in HttpEnvs
  /\ httpBody \in HttpBodies
  /\ httpResponse = "none"
  /\ clock = 0
  /\ otherSuccesses = 0
  /\ inputData = [code_changes |-> EmptyText, changed_files |-> <<>>]
  /\ fileDiffs = <<>>
  /\ nextFile = 1
  /\ sent = <<>>
  /\ inflight = {}
  /\ returns = <<>>
  /\ responses = <<>>
  /\ fileResults = <<>>
  /\ combinedResults = <<>>
  /\ aiReport = <<>>
  /\ reportFiles = <<>>
  /\ outcome = "none"

\* lines 36-53 and 80-98: the handler of POST / up to the call of
\* performAudit
HttpPost ==
  /\ pc = "http"
  /\ IF httpBody.method = "" \/ ~httpBody.params.present
       THEN /\ httpResponse' = "400 Invalid Request"
            /\ pc' = "responded"
            /\ UNCHANGED inputData
     ELSE IF httpBody.method # "tool/audit"
       THEN /\ httpResponse' = "Method not found"
            /\ pc' = "responded"
            /\ UNCHANGED inputData
     ELSE /\ inputData' =
               [code_changes |-> httpBody.params.code_changes,
                changed_files |->
                  IF IsString(httpBody.params.code_changes)
                    THEN FirstOccurrences(
                           HeaderPaths(httpBody.params.code_changes))
                    ELSE <<>>]
          /\ pc' = "start"
          /\ UNCHANGED httpResponse
  /\ UNCHANGED << env, fileDiffs, nextFile, sent, inflight, returns,
                  responses, fileResults, combinedResults, aiReport,
                  reportFiles, outcome >>
  /\ UNCHANGED << clock, httpBody, otherSuccesses >>
  /\ UNCHANGED << shVars, rbVars >>

\* lines 100-115 and 54: the result or the error of performAudit goes back
HttpRespond ==
  /\ pc \in {"done", "failed"}
  /\ httpResponse' = IF pc = "done" THEN "result" ELSE "error -32000"
  /\ pc' = "responded"
  /\ UNCHANGED << env, inputData, fileDiffs, nextFile, sent, inflight,
                  returns, responses, fileResults, combinedResults, aiReport,
                  reportFiles, outcome >>
  /\ UNCHANGED << clock, httpBody, otherSuccesses >>
  /\ UNCHANGED << shVars, rbVars >>

\* a millisecond passes
Tick ==
  /\ clock < MaxClock
  /\ clock' = clock + 1
  /\ UNCHANGED << httpBody, httpResponse, otherSuccesses >>
  /\ UNCHANGED << tsVars, shVars, rbVars >>

\* a run of performAudit for another POST of the same process gets to
\* lines 524-540.  Of its steps only this one touches what the runs share
OtherRunSaves ==
  /\ otherSuccesses < MaxOtherRuns
  /\ reportFiles' =
       saveAuditReport(reportFiles, clock, OtherReport(otherSuccesses + 1))
  /\ otherSuccesses' = otherSuccesses + 1
  /\ UNCHANGED << pc, env, inputData, fileDiffs, nextFile, sent, inflight,
                  returns, responses, fileResults, combinedResults, aiReport,
                  outcome >>
  /\ UNCHANGED << clock, httpBody, httpResponse >>
  /\ UNCHANGED << shVars, rbVars >>

NextHttp ==
  \/ HttpPost
  \/ Begin
  \/ DispatchSingle
  \/ DispatchFile
  \/ DispatchSummary
  \/ CompletionSettles
  \/ SaveReport
  \/ HttpRespond
  \/ Tick
  \/ OtherRunSaves

SpecHttp == InitHttp /\ [][NextHttp]_vars

-----------------------------------------------------------------------------
(* Properties of the report store and of the HTTP transport *)

\* the runs of the process that have returned a success result
SuccessfulRuns == otherSuccesses + (IF outcome = "success" THEN 1 ELSE 0)

\* C16: the runs of one server process, also those that overlap or finish
\* at the same clock instant, each have their own report file: after k
\* successful runs there are k report files.
C16_OneReportFilePerRun == Len(reportFiles) = SuccessfulRuns

\* the request is validated: the four required fields are strings
ValidatedRequest(body) ==
  /\ body.params.present
  /\ body.params.request = "string"
  /\ body.params.modification_description = "string"
  /\ body.params.function_list = "string"
  /\ IsString(body.params.code_changes)

\* C19: the HTTP transport hands only validated requests to performAudit:
\* a POST whose params lack one of the required fields, or carry it as a
\* non-string, causes no completion call and no report.
C19_OnlyValidatedRequestsAudited ==
  ~ValidatedRequest(httpBody) =>
    /\ pc \in {"http", "responded"}
    /\ sent = <<>>
    /\ outcome # "success"

-----------------------------------------------------------------------------
(* Properties of the diff scoper run again *)

\* C20: scoping is idempotent: the diff scoper run on the text it has left,
\* against the same list of names, leaves exactly that text.
C20_ScopingIdempotent ==
  Len(scoped) >= 2 => scoped[2] = scoped[1]

\* how many file header lines of the text name the path
SegmentCount(t, p) ==
  Len(SelectSeq(HeaderPaths(t), LAMBDA q : q = p))

\* C21: the scoped diff holds exactly one segment for each path that is in
\* the list of names under audit and has a header in the original diff, and
\* no segment for any other path.
C21_OneSegmentPerScopedPath ==
  (step = "request" /\ Len(scoped) = 1) =>
    \A p \in ScoperPaths :
      SegmentCount(codeChanges, p) =
        IF /\ p \in Range(combinedFiles)
           /\ p \in Range(HeaderPaths(original_diff))
          THEN 1 ELSE 0

-----------------------------------------------------------------------------
(* Properties of the request pre_audit.sh produces *)

\* C22: the changed_files list of the request pre_audit.sh produces is the
\* list of names under audit, entry for entry, and is the empty list when
\* no name is under audit.
C22_ChangedFilesIsScope ==
  (builder = "pre_audit.sh" /\ step = "done" /\ requestJson # <<>>) =>
    requestJson[Len(requestJson)].changed_files = combinedFiles

-----------------------------------------------------------------------------
(* Properties of the order of the scoped diff *)

\* the position of the header line that governs line i of the text: the
\* last header at or before i, or 0 when there is none
Governor(t, i) ==
  IF \E j \in 1..i : t[j].kind = "hdr"
    THEN CHOOSE j \in 1..i :
           t[j].kind = "hdr" /\ \A k \in (j + 1)..i : t[k].kind # "hdr"
    ELSE 0

\* the lines of the text whose governing header is in K, in their order
RECURSIVE KeptFrom(_, _, _)
KeptFrom(t, K, i) ==
  IF i > Len(t) THEN <<>>
  ELSE (IF Governor(t, i) \in K THEN <<t[i]>> ELSE <<>>)
       \o KeptFrom(t, K, i + 1)

\* the step went from text t to text u by keeping or dropping whole
\* segments, each line with its header, in the order of t; u may end with
\* the newline the loop of step 8 writes
KeepsSegmentsInOrder(t, u) ==
  \E K \in SUBSET (0..Len(t)) :
    \/ u = KeptFrom(t, K, 1)
    \/ u = KeptFrom(t, K, 1) \o EmptyText

-----------------------------------------------------------------------------
(* Properties of the counts the scope filter reports *)

\* C24: the count the scope filter reports for the ignore patterns is the
\* number of names the patterns dropped, also when they drop every name
\* left and when no name was left.
C24_ExcludedCountIsDropped ==
  (step = "filtered" /\ ignore_patterns # <<>>) =>
    excludedCount = Len(currentDirFilesOnly) - Len(combinedFiles)

-----------------------------------------------------------------------------
(* Properties of splitDiffByFiles *)

\* the segment texts of the map in its order, joined with the newline
RECURSIVE Rejoin(_)
Rejoin(fileMap) ==
  IF fileMap = <<>> THEN <<>>
  ELSE Head(fileMap).content \o Rejoin(Tail(fileMap))

\* C25: splitting is lossless: the segment texts of splitDiffByFiles,
\* joined in their order with the line separator, are the diff text, so no
\* line of the diff is lost before the requests for the files are sent.
C25_SplitLossless ==
  pc = "files" => Rejoin(fileDiffs) = inputData.code_changes

-----------------------------------------------------------------------------
(* Properties of the summary prompt *)

\* line 256: the characters of a result the summary prompt may take
ExcerptLimit == 100

\* line 256: "- <file>: <excerpt>..." is the file, the excerpt and seven
\* more characters
ItemLength(item) == 2 + Len(item.file) + 2 + item.excerpt.len + 3

\* the length of the lines of line 256, joined with the newline
RECURSIVE ItemsLength(_)
ItemsLength(items) ==
  IF items = <<>> THEN 0
  ELSE ItemLength(Head(items))
       + (IF Len(items) > 1 THEN 1 ELSE 0)
       + ItemsLength(Tail(items))

\* the longest those lines can be for the files of the results, whatever
\* the completions are
RECURSIVE ItemsBound(_)
ItemsBound(results) ==
  IF results = <<>> THEN 0
  ELSE (2 + Len(Head(results).file) + 2 + ExcerptLimit + 3)
       + (IF Len(results) > 1 THEN 1 ELSE 0)
       + ItemsBound(Tail(results))

\* C26: in the summary prompt every result of a file contributes its path
\* and at most the first 100 characters of its text, so the length of the
\* prompt is bounded by the number of files and the lengths of their paths,
\* whatever the lengths of the completions.
C26_SummaryPromptBounded ==
  \A c \in 1..Len(sent) :
    sent[c].kind = "summary" =>
      /\ Len(sent[c].items) = Len(fileResults)
      /\ \A i \in 1..Len(sent[c].items) :
           LET item == sent[c].items[i]
               result == fileResults[i].result
           IN /\ item.file = fileResults[i].file
              /\ item.excerpt.kind = result.kind
              /\ item.excerpt.call = result.call
              /\ item.excerpt.msg = result.msg
              /\ item.excerpt.len =
                   IF result.len > ExcerptLimit
                     THEN ExcerptLimit ELSE result.len
      /\ ItemsLength(sent[c].items) <= ItemsBound(fileResults)

\* C26 witness: the summary call has been sent with one result shorter
\* than 100 characters taken whole and one longer result cut
C26_Witness ==
  /\ sent # <<>>
  /\ sent[Len(sent)].kind = "summary"
  /\ Len(sent[Len(sent)].items) = Len(fileResults)
  /\ \E i \in 1..Len(fileResults) :
       /\ fileResults[i].result.len > ExcerptLimit
       /\ sent[Len(sent)].items[i].excerpt.len = ExcerptLimit
  /\ \E i \in 1..Len(fileResults) :
       /\ fileResults[i].result.len \in 1..ExcerptLimit
       /\ sent[Len(sent)].items[i].excerpt.len = fileResults[i].result.len

-----------------------------------------------------------------------------
(* Properties of a failing summary call *)

\* the summary call has been made and has thrown
SummaryCallFailed ==
  \E c \in DOMAIN returns :
    c \in 1..Len(sent) /\ sent[c].kind = "summary" /\ ~returns[c].ok

\* C27: in a run split by file, when the summary call fails after the
\* calls for the files have returned, callOpenAIAudit fails with its error,
\* performAudit rethrows it and no report is stored: the results of the
\* files are dropped, also when every one of them succeeded.
C27_SummaryFailureDiscardsRun ==
  SummaryCallFailed =>
    /\ pc = "failed"
    /\ \E c \in DOMAIN returns :
         /\ c \in 1..Len(sent)
         /\ sent[c].kind = "summary"
         /\ outcome = returns[c].error
    /\ Len(fileResults) = Len(fileDiffs)
    /\ aiReport = <<>>
    /\ reportFiles = <<>>

\* C27 witness: the calls for three files all returned a completion and
\* the summary call threw
C27_Witness ==
  /\ SummaryCallFailed
  /\ Len(fileResults) = MaxUnsplitFiles + 1
  /\ \A i \in 1..Len(fileResults) : fileResults[i].result.kind = "completion"
  /\ pc = "failed"

====
